---- MODULE Spec2Model ----
(***************************************************************************)
(* Model of the chunk indexing engine (RepoFunctionsMgmt, RepoClassesMgmt, *)
(* RepoCodeChunksMgmt) and of the graph materializer (Neo4jClient,         *)
(* CodeGraphGenerator) of pando-codedata-service.                          *)
(*                                                                         *)
(* A relational table is a function from row id to row; the vector store   *)
(* is a function from space name to space; the graph is a set of nodes     *)
(* and a set of edges.  The outcomes of the collaborators (LLM, embedding  *)
(* model, vector store, relational commit) are inputs of the actions.      *)
(***************************************************************************)
EXTENDS Integers, FiniteSets, Sequences, TLC

\* ---------------------------------------------------------------- bounds
MaxRows == 2
MaxLimit == 2

Ids == 1..MaxRows
Limits == 1..MaxLimit
Repos == {"r1", "r2"}
Files == {"a.py"}
Dims == {2, 3}

\* ---------------------------------------------------------------- values
Null == "NULL"
LLM_TEXT == "s1"
\* f"无法生成{content_type}摘要": what llm_summarize returns when the chat fails
FAIL_TEXT == "cannot_summarize"
SOURCE == "src"
Tables == {"function", "class", "chunk"}
\* what a run exercises: one of the four vector pipelines (the purposes of the space
\* names), or both pipelines of the chunk table
Runs == {"function", "class", "chunk_source", "chunk_summary", "chunk"}

Truthy(s) == s # Null /\ s # ""

VARIABLES
    run,        \* the Mgmt class and the pipeline(s) the run exercises
    rows,       \* the table: id -> row
    nextId,     \* next synthetic row id
    spaces,     \* vector store: space name -> [vector_size, recs]
    provider,   \* vector dimension of the configured embedding model
    op,         \* the last operation: name, arguments, collaborator outcomes, result
    trace,      \* what the last delete operation did, in order
    fs,         \* the repository on disk
    nodes,      \* graph: node key -> properties
    edges,      \* graph: <<from key, type, to key>>
    now,        \* logical clock of the graph database
    gop         \* the last graph operation: name, argument, result

cvars == <<run, rows, nextId, spaces, provider, op, trace>>
gvars == <<fs, nodes, edges, now, gop>>
vars == <<cvars, gvars>>

\* no project has been materialized
GInit ==
    /\ fs = "bare"
    /\ nodes = << >>
    /\ edges = {}
    /\ now = 0
    /\ gop = [name |-> "init", arg |-> "", result |-> "ok", repeat |-> FALSE]

\* the table of the run: RepoFunctions, RepoClasses or RepoCodeChunks
table == IF run \in {"chunk_source", "chunk_summary", "chunk"} THEN "chunk" ELSE run

NoIns == [r \in Repos |-> "none"]
NoRecs == [i \in {} |-> [text |-> "", file_path |-> "", dim |-> 0]]

Op(name, repo, ids, bad, ins, ret) ==
    [name |-> name, repo |-> repo, ids |-> ids, bad |-> bad, ins |-> ins, ret |-> ret]

\* ------------------------------------------------------- vector store
\* f"repo_{repo_id}_function", _class, _chunk_source, _chunk_summary
SpaceName(repo, purpose) == <<repo, purpose>>

\* VECTOR_STORE_CONN.create_space(name, vector_size): idempotent; ok = FALSE is a failed creation
create_space(sp, name, vector_size, ok) ==
    IF name \in DOMAIN sp THEN sp
    ELSE IF ok THEN (name :> [vector_size |-> vector_size, recs |-> NoRecs]) @@ sp
    ELSE sp

\* VECTOR_STORE_CONN.insert_records(name, records): the records not reported as failed are stored
insert_records(sp, name, records, failed) ==
    IF name \notin DOMAIN sp THEN sp
    ELSE LET kept == (DOMAIN records) \ failed
             old == sp[name].recs
             new == [i \in (DOMAIN old) \cup kept |-> IF i \in kept THEN records[i] ELSE old[i]]
         IN [sp EXCEPT ![name].recs = new]

\* VECTOR_STORE_CONN.delete_records(name, {"id": id}); ok = FALSE is a call that raises
delete_records(sp, name, ids, ok) ==
    IF name \notin DOMAIN sp \/ ~ok THEN sp
    ELSE LET old == sp[name].recs
         IN [sp EXCEPT ![name].recs = [i \in (DOMAIN old) \ ids |-> old[i]]]

\* VECTOR_STORE_CONN.delete_space(name); ok = FALSE is a call that fails or raises
delete_space(sp, name, ok) ==
    IF ok THEN [n \in (DOMAIN sp) \ {name} |-> sp[n]] ELSE sp

\* constants.get_function_vector_space and its three siblings: the name does not
\* depend on vector_size, and the space is created when it is absent
get_vector_space(sp, repo, purpose, vector_size, ok) ==
    create_space(sp, SpaceName(repo, purpose), vector_size, ok)

\* ------------------------------------------------------- relational rows
\* RepoFunctionsMgmt.create / RepoCodeChunksMgmt.create: the inserted row
NewRow(tbl, repo, file) ==
    IF tbl = "chunk"
    THEN [repo_id |-> repo, file_path |-> file, summary |-> Null, is_summarized |-> FALSE,
          is_source_vectorized |-> FALSE, is_summary_vectorized |-> FALSE]
    ELSE [repo_id |-> repo, file_path |-> file, summary |-> Null, is_summarized |-> FALSE,
          is_vectorized |-> FALSE]

\* the assignments of update: a field that is None in the request (absent here) is skipped
ApplyPatch(r, p) == [f \in DOMAIN r |-> IF f \in DOMAIN p THEN p[f] ELSE r[f]]

\* RepoFunctionsMgmt.update / RepoCodeChunksMgmt.update: an unknown id or a failed
\* commit (rollback) changes nothing
update(rs, id, p, dbok) ==
    IF id \in DOMAIN rs /\ dbok THEN [rs EXCEPT ![id] = ApplyPatch(rs[id], p)] ELSE rs

\* _get_unsummarized (all three classes)
get_unsummarized(rs, repo) ==
    {i \in DOMAIN rs : rs[i].repo_id = repo /\ ~rs[i].is_summarized}

\* a selection that does not look at is_vectorized
get_unvectorized_again(rs, repo) ==
    {i \in DOMAIN rs : /\ rs[i].repo_id = repo
                       /\ rs[i].is_summarized
                       /\ rs[i].summary # Null}

\* RepoFunctionsMgmt._get_unvectorized
get_unvectorized(rs, repo) ==
    {i \in DOMAIN rs : /\ rs[i].repo_id = repo
                       /\ ~rs[i].is_vectorized
                       /\ rs[i].is_summarized
                       /\ rs[i].summary # Null}

\* RepoCodeChunksMgmt._get_source_unvectorized
get_source_unvectorized(rs, repo) ==
    {i \in DOMAIN rs : rs[i].repo_id = repo /\ ~rs[i].is_source_vectorized}

\* a selection that does not look at is_summarized
get_summary_unvectorized_any(rs, repo) ==
    {i \in DOMAIN rs : rs[i].repo_id = repo /\ ~rs[i].is_summary_vectorized}

\* RepoCodeChunksMgmt._get_summary_unvectorized
get_summary_unvectorized(rs, repo) ==
    {i \in DOMAIN rs : /\ rs[i].repo_id = repo
                       /\ ~rs[i].is_summary_vectorized
                       /\ rs[i].is_summarized}

\* query.limit(limit): any limit rows of the result (the query has no ORDER BY)
Limited(S, limit) ==
    {T \in SUBSET S : Cardinality(T) = IF Cardinality(S) < limit THEN Cardinality(S) ELSE limit}

\* the limits that select differently among the rows S: a limit above the number of rows
\* selects what the number of rows selects
LimitsFor(S) == {limit \in Limits : limit = 1 \/ limit <= Cardinality(S)}

FirstDim == CHOOSE d \in Dims : \A e \in Dims : d <= e

Init ==
    /\ run \in Runs
    /\ rows = [i \in {} |-> NewRow("function", "r1", "a.py")]
    /\ nextId = 1
    /\ spaces = [n \in {} |-> [vector_size |-> 0, recs |-> NoRecs]]
    /\ provider = FirstDim
    /\ op = Op("init", Null, {}, {}, NoIns, 0)
    /\ trace = << >>
    /\ GInit

\* a create that copies data.summary into the row and flags the row when there is one
create_copying(repo, file, summary) ==
    /\ nextId <= MaxRows
    /\ rows' = (nextId :> [NewRow(table, repo, file) EXCEPT !.summary = summary,
                                                           !.is_summarized = (summary # Null)]) @@ rows
    /\ nextId' = nextId + 1
    /\ op' = Op("create", Null, {}, {}, NoIns, 0)
    /\ trace' = << >>
    /\ UNCHANGED gvars /\ UNCHANGED <<run, spaces, provider>>

\* create: data.summary (FunctionDataCreate, ClassDataCreate) is not copied into the row
create(repo, file, summary) ==
    /\ nextId <= MaxRows
    /\ rows' = (nextId :> NewRow(table, repo, file)) @@ rows
    /\ nextId' = nextId + 1
    /\ op' = Op("create", Null, {}, {}, NoIns, 0)
    /\ trace' = << >>
    /\ UNCHANGED gvars /\ UNCHANGED <<run, spaces, provider>>

Create == \E repo \in Repos, file \in Files, s \in {Null, LLM_TEXT} : create(repo, file, s)

\* a request that stores the summary and leaves is_summarized false
SummaryPatchUnflagged(text) == [summary |-> text, is_summarized |-> FALSE]

\* FunctionDataUpdate / ClassDataUpdate / CodeChunkUpdate requests: a caller that stores a
\* summary it has, and a caller that sets the vector flag of the run's pipeline
SummaryPatch(text) == [summary |-> text, is_summarized |-> TRUE]

Patches(r) ==
    {SummaryPatch(LLM_TEXT)}
    \cup (IF r \in {"function", "class"} THEN {[is_vectorized |-> TRUE]} ELSE {})
    \cup (IF r \in {"chunk_source", "chunk"} THEN {[is_source_vectorized |-> TRUE]} ELSE {})
    \cup (IF r \in {"chunk_summary", "chunk"} THEN {[is_summary_vectorized |-> TRUE]} ELSE {})

UpdateWith(P) ==
    \E id \in DOMAIN rows, p \in P, dbok \in BOOLEAN :
        /\ rows' = update(rows, id, p, dbok)
        /\ op' = Op("update", Null, {}, {}, NoIns, 0)
        /\ trace' = << >>
        /\ UNCHANGED gvars /\ UNCHANGED <<run, nextId, spaces, provider>>

Update == UpdateWith(Patches(run))

\* RepoCodeChunksMgmt.update called with a summary: the way a chunk gets its summary
SetChunkSummary == run \in {"chunk_summary", "chunk"} /\ UpdateWith({SummaryPatch(LLM_TEXT)})

\* RepoCodeChunksMgmt.update called with a summary, with or without is_summarized
UpdateChunkSummary ==
    run \in {"chunk_summary", "chunk"} /\ UpdateWith({SummaryPatch(LLM_TEXT), [summary |-> LLM_TEXT]})

\* ------------------------------------------------------- summaries
\* the members of ContentType (codesummary/models/model.py); CODE_CHUNK is not one of them
ContentTypes == {"folder", "file", "class", "struct", "interface", "function"}

LlmOutcomes == {"ok", "empty", "fail"}

\* CodeSummary.llm_summarize: the reply's text, or the failure text when the chat
\* raises or reports success = false
llm_summarize(content_type, outcome) ==
    IF content_type \notin ContentTypes THEN ""
    ELSE IF outcome = "ok" THEN LLM_TEXT
    ELSE IF outcome = "empty" THEN ""
    ELSE FAIL_TEXT

\* generate_summary: RepoFunctionsMgmt passes FUNCTION, RepoClassesMgmt CLASS, STRUCT or
\* INTERFACE, RepoCodeChunksMgmt names ContentType.CODE_CHUNK, whose lookup raises inside
\* the try block, so that "" is returned
generate_summary(tbl, outcome) ==
    IF tbl = "chunk" THEN "" ELSE llm_summarize(tbl, outcome)

\* the loop of scan_and_generate_summary
RECURSIVE SummarizeAll(_, _, _, _, _)
SummarizeAll(rs, todo, tbl, llm, dbfail) ==
    IF todo = {} THEN rs
    ELSE LET i == CHOOSE x \in todo : TRUE
             summary == generate_summary(tbl, llm[i])
             rs1 == IF Truthy(summary) THEN update(rs, i, SummaryPatch(summary), i \notin dbfail) ELSE rs
         IN SummarizeAll(rs1, todo \ {i}, tbl, llm, dbfail)

\* scan_and_generate_summary (all three classes): count is raised whenever the summary is truthy
\* L are the outcomes of the chat the run considers
scan_and_generate_summary(repo, limit, L) ==
    \E sel \in Limited(get_unsummarized(rows, repo), limit) :
    \E llm \in [sel -> L], dbfail \in SUBSET sel :
        /\ rows' = SummarizeAll(rows, sel, table, llm, dbfail)
        /\ op' = Op("scan_and_generate_summary", Null, sel,
                    {i \in sel : table # "chunk" /\ llm[i] = "fail"}, NoIns,
                    Cardinality({i \in sel : Truthy(generate_summary(table, llm[i]))}))
        /\ trace' = << >>
        /\ UNCHANGED gvars /\ UNCHANGED <<run, nextId, spaces, provider>>

ScanAndGenerateSummary ==
    \E repo \in Repos : \E limit \in LimitsFor(get_unsummarized(rows, repo)) :
        scan_and_generate_summary(repo, limit, LlmOutcomes)

\* the same scan with a chat that answers
ScanAndGenerateSummaryOk ==
    \E repo \in Repos : \E limit \in LimitsFor(get_unsummarized(rows, repo)) :
        scan_and_generate_summary(repo, limit, {"ok", "empty"})

\* ------------------------------------------------------- vectorize
EMBEDDING_BATCH_SIZE == 16

NumBatches(n) == (n + EMBEDDING_BATCH_SIZE - 1) \div EMBEDDING_BATCH_SIZE

\* rows of batch b (0-based) among n rows
BatchLen(n, b) ==
    IF (b + 1) * EMBEDDING_BATCH_SIZE <= n THEN EMBEDDING_BATCH_SIZE ELSE n - b * EMBEDDING_BATCH_SIZE

RECURSIVE SumBatches(_, _)
SumBatches(n, S) ==
    IF S = {} THEN 0
    ELSE LET b == CHOOSE x \in S : TRUE IN BatchLen(n, b) + SumBatches(n, S \ {b})

\* a count that takes every batch as embedded
VectorCountAll(n, failedBatches) == n

\* len(content_vectors) after the embedding loop: a failed batch is skipped
VectorCount(n, failedBatches) == SumBatches(n, (0..(NumBatches(n) - 1)) \ failedBatches)

RepoOrders == {s \in [1..Cardinality(Repos) -> Repos] : \A i, j \in DOMAIN s : s[i] = s[j] => i = j}

RECURSIVE UpdateAll(_, _, _, _)
UpdateAll(rs, todo, patch, dbfail) ==
    IF todo = {} THEN rs
    ELSE LET i == CHOOSE x \in todo : TRUE
         IN UpdateAll(update(rs, i, patch, i \notin dbfail), todo \ {i}, patch, dbfail)

\* What the collaborators do during one vectorize call:
\*   raise   - the repo whose get_*_vector_space call raises (Null: none)
\*   nospace - the repos whose create_space fails, so that the insert finds no space
\*   failed  - the ids that insert_records reports as failed
\*   dbfail  - the rows whose flag update fails (update returns None)
\*   order   - the order of repo_groups
GroupOf(rs, ids, repo) == {i \in ids : rs[i].repo_id = repo}

\* the answer of insert_records: the failed ids (all of them when the space is missing)
InsertFailed(sp, name, grp, failed) ==
    IF name \notin DOMAIN sp THEN grp ELSE failed \cap grp

\* a loop that updates the flags whatever insert_records answered
FlagUpdateAlways(rs, grp, f, patch, dbfail) == UpdateAll(rs, grp, patch, dbfail)

\* "if not vector_ids": the flags are updated only when no id was reported as failed
FlagUpdate(rs, grp, f, patch, dbfail) == IF f = {} THEN UpdateAll(rs, grp, patch, dbfail) ELSE rs

\* the loop over repo_groups of vectorize, vectorize_source and vectorize_summary
RECURSIVE VectorizeGroups(_, _, _, _, _, _, _, _, _)
VectorizeGroups(order, st, snap, ws, purpose, texts, patch, dim, inp) ==
    IF order = << >> \/ st.aborted THEN st
    ELSE LET repo == Head(order)
             grp == GroupOf(snap, ws, repo)
             name == SpaceName(repo, purpose)
             sp1 == get_vector_space(st.spaces, repo, purpose, dim, repo \notin inp.nospace)
             f == InsertFailed(sp1, name, grp, inp.failed)
             records == [i \in grp |-> [text |-> texts[i], file_path |-> snap[i].file_path, dim |-> dim]]
             sp2 == insert_records(sp1, name, records, f)
             st1 == IF grp = {} THEN st
                    ELSE IF repo = inp.raise
                    THEN [st EXCEPT !.aborted = TRUE, !.ins[repo] = "raise"]
                    ELSE [st EXCEPT !.spaces = sp2,
                                    !.ins[repo] = IF f = {} THEN "ok" ELSE "failed",
                                    !.rows = FlagUpdate(st.rows, grp, f, patch, inp.dbfail),
                                    !.count = IF f = {} THEN st.count + Cardinality(grp) ELSE st.count]
         IN VectorizeGroups(Tail(order), st1, snap, ws, purpose, texts, patch, dim, inp)

\* the common body of the three vectorize methods; ws are the rows that are embedded
VectorizeBody(ids, ws, purpose, texts, patch, emb, inp) ==
    LET n == Cardinality(ws)
        st0 == [rows |-> rows, spaces |-> spaces, count |-> 0, ins |-> NoIns, aborted |-> FALSE]
        go == /\ ids # {} /\ emb.ok /\ ws # {}
              /\ VectorCount(n, emb.failedBatches) # 0
              /\ VectorCount(n, emb.failedBatches) = n
        st == IF go THEN VectorizeGroups(inp.order, st0, rows, ws, purpose, texts, patch, provider, inp)
              ELSE st0
    IN [st EXCEPT !.count = IF st.aborted THEN 0 ELSE st.count]

WithSummary(rs, ids) == {i \in ids : Truthy(rs[i].summary)}

\* RepoFunctionsMgmt.vectorize / RepoClassesMgmt.vectorize: the summary is embedded
vectorize(ids, emb, inp) ==
    VectorizeBody(ids, WithSummary(rows, ids), table, [i \in ids |-> rows[i].summary],
                  [is_vectorized |-> TRUE], emb, inp)

\* RepoCodeChunksMgmt.vectorize_source: the source code of every row is embedded
vectorize_source(ids, emb, inp) ==
    VectorizeBody(ids, ids, "chunk_source", [i \in ids |-> SOURCE],
                  [is_source_vectorized |-> TRUE], emb, inp)

\* RepoCodeChunksMgmt.vectorize_summary
vectorize_summary(ids, emb, inp) ==
    VectorizeBody(ids, WithSummary(rows, ids), "chunk_summary", [i \in ids |-> rows[i].summary],
                  [is_summary_vectorized |-> TRUE], emb, inp)

\* embedding outcomes: the model cannot be created (ok = FALSE), or some batches fail
EmbOutcomes(n) ==
    {[ok |-> FALSE, failedBatches |-> {}]}
    \cup [ok: {TRUE}, failedBatches: SUBSET (0..(NumBatches(n) - 1))]

FirstOrder == CHOOSE s \in RepoOrders : TRUE

Quiet == [raise |-> Null, nospace |-> {}, failed |-> {}, dbfail |-> {}, order |-> FirstOrder]

\* the vector flag that a call for the purpose sets
FlagOfPurpose(purpose) ==
    IF purpose = "chunk_source" THEN "is_source_vectorized"
    ELSE IF purpose = "chunk_summary" THEN "is_summary_vectorized"
    ELSE "is_vectorized"

\* the collaborator outcomes that make a difference for the rows ws of the call
StoreOutcomes(ws, purpose) ==
    LET present == {r \in Repos : GroupOf(rows, ws, r) # {}}
        \* the rows of the groups that the loop reaches: none after the group that raises
        reached(R, o) == {i \in ws : /\ rows[i].repo_id # R
                                     /\ (R = Null \/ \E a, b \in DOMAIN o :
                                            a < b /\ o[a] = rows[i].repo_id /\ o[b] = R)}
    IN UNION UNION UNION UNION
       {{{{{[raise |-> R, nospace |-> N, failed |-> F, dbfail |-> D, order |-> o] :
              D \in SUBSET {i \in reached(R, o) : /\ rows[i].repo_id \notin N
                                                  /\ GroupOf(rows, F, rows[i].repo_id) = {}
                                                  /\ ~rows[i][FlagOfPurpose(purpose)]}} :
              F \in SUBSET {i \in reached(R, o) : rows[i].repo_id \notin N}} :
              N \in SUBSET {r \in {rows[i].repo_id : i \in reached(R, o)} :
                               SpaceName(r, purpose) \notin DOMAIN spaces}} :
              o \in IF R = Null \/ present = {R} THEN {FirstOrder} ELSE RepoOrders} :
              R \in {Null} \cup present}

Complete(emb, ws) == emb.ok /\ emb.failedBatches = {} /\ ws # {}

Applied(name, st) ==
    /\ rows' = st.rows
    /\ spaces' = st.spaces
    /\ op' = Op(name, Null, {}, {}, st.ins, st.count)
    /\ trace' = << >>
    /\ UNCHANGED gvars /\ UNCHANGED <<run, nextId, provider>>

VectorizeCall(name, ids) ==
    \E emb \in EmbOutcomes(Cardinality(WithSummary(rows, ids))) :
        IF Complete(emb, WithSummary(rows, ids))
        THEN \E inp \in StoreOutcomes(WithSummary(rows, ids), table) :
                Applied(name, vectorize(ids, emb, inp))
        ELSE Applied(name, vectorize(ids, emb, Quiet))

VectorizeSourceCall(name, ids) ==
    \E emb \in EmbOutcomes(Cardinality(ids)) :
        IF Complete(emb, ids)
        THEN \E inp \in StoreOutcomes(ids, "chunk_source") :
                Applied(name, vectorize_source(ids, emb, inp))
        ELSE Applied(name, vectorize_source(ids, emb, Quiet))

VectorizeSummaryCall(name, ids) ==
    \E emb \in EmbOutcomes(Cardinality(WithSummary(rows, ids))) :
        IF Complete(emb, WithSummary(rows, ids))
        THEN \E inp \in StoreOutcomes(WithSummary(rows, ids), "chunk_summary") :
                Applied(name, vectorize_summary(ids, emb, inp))
        ELSE Applied(name, vectorize_summary(ids, emb, Quiet))

NothingToDo(name, repo) ==
    /\ op' = Op(name, Null, {}, {}, NoIns, 0)
    /\ trace' = << >>
    /\ UNCHANGED gvars /\ UNCHANGED <<run, rows, nextId, spaces, provider>>

\* the calls that differ: the rows without a summary are dropped before anything is done
\* with them, so a call is determined by its rows that have a summary (none: 0 is returned)
CallsWithSummary == {WithSummary(rows, ids) : ids \in (SUBSET DOMAIN rows) \ {{}}}

\* vectorize called with any rows of the table
Vectorize ==
    /\ table # "chunk"
    /\ \E ids \in CallsWithSummary : VectorizeCall("vectorize", ids)

VectorizeSource ==
    /\ run \in {"chunk_source", "chunk"}
    /\ \E ids \in (SUBSET DOMAIN rows) \ {{}} : VectorizeSourceCall("vectorize_source", ids)

VectorizeSummary ==
    /\ run \in {"chunk_summary", "chunk"}
    /\ \E ids \in CallsWithSummary : VectorizeSummaryCall("vectorize_summary", ids)

\* RepoFunctionsMgmt.scan_and_vectorize
scan_and_vectorize(repo, limit) ==
    \E sel \in Limited(get_unvectorized(rows, repo), limit) :
        IF sel = {} THEN NothingToDo("scan_and_vectorize", repo)
        ELSE VectorizeCall("scan_and_vectorize", sel)

\* RepoCodeChunksMgmt.scan_and_vectorize_source
scan_and_vectorize_source(repo, limit) ==
    \E sel \in Limited(get_source_unvectorized(rows, repo), limit) :
        IF sel = {} THEN NothingToDo("scan_and_vectorize_source", repo)
        ELSE VectorizeSourceCall("scan_and_vectorize_source", sel)

\* RepoCodeChunksMgmt.scan_and_vectorize_summary
scan_and_vectorize_summary(repo, limit) ==
    \E sel \in Limited(get_summary_unvectorized(rows, repo), limit) :
        IF sel = {} THEN NothingToDo("scan_and_vectorize_summary", repo)
        ELSE VectorizeSummaryCall("scan_and_vectorize_summary", sel)

ScanAndVectorize ==
    /\ table # "chunk"
    /\ \E repo \in Repos : \E limit \in LimitsFor(get_unvectorized(rows, repo)) :
            scan_and_vectorize(repo, limit)

ScanAndVectorizeSource ==
    /\ run \in {"chunk_source", "chunk"}
    /\ \E repo \in Repos : \E limit \in LimitsFor(get_source_unvectorized(rows, repo)) :
            scan_and_vectorize_source(repo, limit)

ScanAndVectorizeSummary ==
    /\ run \in {"chunk_summary", "chunk"}
    /\ \E repo \in Repos : \E limit \in LimitsFor(get_summary_unvectorized(rows, repo)) :
            scan_and_vectorize_summary(repo, limit)

\* the scans of the chunk table with an embedding model that answers and a store that
\* takes every record of the call or reports every record as failed
WholeOutcomes(ws) == {Quiet, [Quiet EXCEPT !.failed = ws]}

Embedded == [ok |-> TRUE, failedBatches |-> {}]

ScanSourceWhole ==
    /\ run \in {"chunk_source", "chunk"}
    /\ \E repo \in Repos : \E limit \in LimitsFor(get_source_unvectorized(rows, repo)) :
       \E sel \in Limited(get_source_unvectorized(rows, repo), limit) :
            IF sel = {} THEN NothingToDo("scan_and_vectorize_source", repo)
            ELSE \E inp \in WholeOutcomes(sel) :
                    Applied("scan_and_vectorize_source", vectorize_source(sel, Embedded, inp))

ScanSummaryWhole ==
    /\ run \in {"chunk_summary", "chunk"}
    /\ \E repo \in Repos : \E limit \in LimitsFor(get_summary_unvectorized(rows, repo)) :
       \E sel \in Limited(get_summary_unvectorized(rows, repo), limit) :
            IF sel = {} THEN NothingToDo("scan_and_vectorize_summary", repo)
            ELSE \E inp \in WholeOutcomes(WithSummary(rows, sel)) :
                    Applied("scan_and_vectorize_summary", vectorize_summary(sel, Embedded, inp))

\* ------------------------------------------------------- delete
Purposes(tbl) == IF tbl = "chunk" THEN {"chunk_source", "chunk_summary"} ELSE {tbl}

\* the delete_records call of _delete_vector_record_by_id for one purpose: the space is
\* looked up (and created when absent), then the record of the row is deleted
DeleteRecord(sp, repo, purpose, id, vsok) ==
    delete_records(get_vector_space(sp, repo, purpose, provider, vsok),
                   SpaceName(repo, purpose), {id}, vsok)

\* _delete_vector_record_by_id: nothing happens without an embedding model or a probe
\* vector; RepoFunctionsMgmt and RepoClassesMgmt test is_vectorized again,
\* RepoCodeChunksMgmt deletes per flag (the summary record only when the summary is set)
delete_vector_record_by_id(sp, tbl, row, id, probe, vsok) ==
    IF ~probe THEN sp
    ELSE IF tbl = "chunk"
    THEN LET s1 == IF row.is_source_vectorized
                   THEN DeleteRecord(sp, row.repo_id, "chunk_source", id, vsok) ELSE sp
         IN IF row.is_summary_vectorized /\ Truthy(row.summary)
            THEN DeleteRecord(s1, row.repo_id, "chunk_summary", id, vsok) ELSE s1
    ELSE IF row.is_vectorized THEN DeleteRecord(sp, row.repo_id, tbl, id, vsok) ELSE sp

\* "if function_data.is_vectorized" / "if chunk_data.is_source_vectorized or
\* chunk_data.is_summary_vectorized": the condition under which delete calls the helper
HelperCalled(tbl, row) ==
    IF tbl = "chunk" THEN row.is_source_vectorized \/ row.is_summary_vectorized
    ELSE row.is_vectorized

\* delete(id): False for an unknown id; the helper, then the row; a failed commit is rolled back
delete(id, probe, vsok, dbok) ==
    IF id \notin DOMAIN rows
    THEN /\ op' = Op("delete", Null, {}, {}, NoIns, FALSE)
         /\ trace' = << >>
         /\ UNCHANGED gvars /\ UNCHANGED <<run, rows, nextId, spaces, provider>>
    ELSE LET called == HelperCalled(table, rows[id])
         IN /\ spaces' = IF called
                         THEN delete_vector_record_by_id(spaces, table, rows[id], id, probe, vsok)
                         ELSE spaces
            /\ rows' = IF dbok THEN [i \in (DOMAIN rows) \ {id} |-> rows[i]] ELSE rows
            /\ trace' = (IF called THEN <<"delete_vector_record">> ELSE << >>)
                        \o (IF dbok THEN <<"db_delete">> ELSE <<"rollback">>)
            /\ op' = Op("delete", Null, {}, {}, NoIns, dbok)
            /\ UNCHANGED gvars /\ UNCHANGED <<run, nextId, provider>>

Delete == \E id \in Ids, probe \in BOOLEAN, vsok \in BOOLEAN, dbok \in BOOLEAN : delete(id, probe, vsok, dbok)

RECURSIVE DeleteSpaces(_, _, _, _, _)
DeleteSpaces(sp, repo, todo, createok, delok) ==
    IF todo = {} THEN [spaces |-> sp, success |-> TRUE]
    ELSE LET p == CHOOSE x \in todo : TRUE
             sp1 == get_vector_space(sp, repo, p, provider, createok)
             deleted == delok /\ SpaceName(repo, p) \in DOMAIN sp1
             rest == DeleteSpaces(delete_space(sp1, SpaceName(repo, p), deleted), repo, todo \ {p},
                                  createok, delok)
         IN [spaces |-> rest.spaces, success |-> deleted /\ rest.success]

\* _delete_vector_records_by_repo_id: False without an embedding model or a probe vector;
\* otherwise every space of the repo is looked up (created when absent) and deleted
delete_vector_records_by_repo_id(sp, tbl, repo, probe, createok, delok) ==
    IF ~probe THEN [spaces |-> sp, success |-> FALSE]
    ELSE DeleteSpaces(sp, repo, Purposes(tbl), createok, delok)

\* delete_by_repo_id: the answer of the helper is not looked at
delete_by_repo_id(repo, probe, createok, delok, dbok) ==
    /\ spaces' = delete_vector_records_by_repo_id(spaces, table, repo, probe, createok, delok).spaces
    /\ rows' = IF dbok THEN [i \in {j \in DOMAIN rows : rows[j].repo_id # repo} |-> rows[i]] ELSE rows
    /\ op' = Op("delete_by_repo_id", repo, {}, {}, NoIns, dbok)
    /\ trace' = << >>
    /\ UNCHANGED gvars /\ UNCHANGED <<run, nextId, provider>>

DeleteByRepoId ==
    \E repo \in Repos, probe \in BOOLEAN, createok \in BOOLEAN, delok \in BOOLEAN, dbok \in BOOLEAN :
        delete_by_repo_id(repo, probe, createok, delok, dbok)

\* ------------------------------------------------------- search
\* search (RepoFunctionsMgmt, RepoClassesMgmt), search_by_source_vector and
\* search_by_summary_vector (RepoCodeChunksMgmt): without a query vector nothing is done;
\* otherwise the space of the repo is looked up through get_*_vector_space; no row changes
search(repo, purpose, query_vector, createok) ==
    /\ spaces' = IF query_vector THEN get_vector_space(spaces, repo, purpose, provider, createok)
                  ELSE spaces
    /\ op' = Op("search", repo, {}, {}, NoIns, 0)
    /\ trace' = << >>
    /\ UNCHANGED gvars /\ UNCHANGED <<run, rows, nextId, provider>>

Search ==
    /\ run # "chunk"
    /\ \E repo \in Repos, query_vector \in BOOLEAN, createok \in BOOLEAN :
            search(repo, run, query_vector, createok)

\* the configuration names another embedding model: embedding_factory.create_model()
\* then gives vectors of another dimension
ChangeProvider ==
    /\ \E d \in Dims \ {provider} : provider' = d
    /\ op' = Op("change_provider", Null, {}, {}, NoIns, 0)
    /\ trace' = << >>
    /\ UNCHANGED gvars /\ UNCHANGED <<run, rows, nextId, spaces>>

\* ------------------------------------------------------- graph materializer
\* bound of the logical clock: every generator or client call takes one tick
MaxClock == 4

ProjectId == "p"
RootName == "repo"
RootPath == "."
FolderPaths == {RootPath, "src"}
FileName == "a.py"
FilePath == "src/a.py"

\* the repository on disk: no visible entry at all, or src/a.py with one of five contents
FsStates == {"bare", "v0", "v1", "v2", "v3", "v4"}

\* a node key: label and the properties of its MERGE pattern (project_id is ProjectId)
ProjectKey == <<"Project", "", ProjectId, "">>
FolderKey(name, path) == <<"Folder", name, path, "">>
FileKey(name, file_path) == <<"File", name, file_path, "">>
ClassKey(name, full_name) == <<"Class", name, full_name, "">>
FunctionKey(name, full_name, signature) == <<"Function", name, full_name, signature>>

Label(k) == k[1]

NoProps == [file_path |-> Null, node_type |-> Null, created_at |-> 0, updated_at |-> 0]
EmptyGraph == [nodes |-> [k \in {} |-> NoProps], edges |-> {}]

\* the analyzer's view of the three contents of src/a.py
MethodM == [name |-> "m", full_name |-> "src.a.A.m", signature |-> "m(self)", calls |-> {}]
MethodN == [name |-> "n", full_name |-> "src.a.A.n", signature |-> "n(self)", calls |-> {}]
CallH == [name |-> "h", full_name |-> "lib.h", signature |-> "h()"]
FuncG == [name |-> "g", full_name |-> "src.a.g", signature |-> "g()", calls |-> {CallH}]
BaseB == [name |-> "B", full_name |-> "lib.B", node_type |-> "class"]
ClassA1 == [name |-> "A", full_name |-> "src.a.A", file_path |-> FilePath, node_type |-> "class",
            base_classes |-> {BaseB}, methods |-> {MethodM}]
ClassA2 == [name |-> "A", full_name |-> "src.a.A", file_path |-> FilePath, node_type |-> "class",
            base_classes |-> {}, methods |-> {MethodN}]

\* class I(ABC): ...  and  class D(I): ...  ; the analyzer gives every base class the
\* node_type 'class' (_get_base_classes) and the definition of I the node_type 'interface'
BaseI == [name |-> "I", full_name |-> "src.a.I", node_type |-> "class"]
ClassI == [name |-> "I", full_name |-> "src.a.I", file_path |-> FilePath, node_type |-> "interface",
           base_classes |-> {}, methods |-> {}]
ClassD == [name |-> "D", full_name |-> "src.a.D", file_path |-> FilePath, node_type |-> "class",
           base_classes |-> {BaseI}, methods |-> {}]

\* PythonAnalyzer.analyze_function: f"{node.name}({param_signature}) -> {return_type_str}"
\* for a function without parameters
DefSignature(name, return_type) == name \o "(" \o ")" \o " -> " \o return_type

\* PythonAnalyzer._build_call_signature: f"{func_name}({','.join(arg_types)})->{return_type}"
\* for a call without arguments
CallSignature(func_name, return_type) == func_name \o "(" \o ")" \o "->" \o return_type

\* def k(): ...  and  def j(): k()  in src/a.py; neither has an annotation
FuncK == [name |-> "k", full_name |-> "src.a.k", signature |-> DefSignature("k", "Any"), calls |-> {}]
CallK == [name |-> "k", full_name |-> "src.a.k", signature |-> CallSignature("k", "Any")]
FuncJ == [name |-> "j", full_name |-> "src.a.j", signature |-> DefSignature("j", "Any"),
          calls |-> {CallK}]

FileInfo(classes, functions) ==
    [name |-> FileName, file_path |-> FilePath, classes |-> classes, functions |-> functions]

\* FileAstAnalyzer.analyze_file; an Optional is the empty set (None) or a set of one value
analyze_file(f) ==
    IF f = "v0" THEN {FileInfo({}, {})}
    ELSE IF f = "v1" THEN {FileInfo({ClassA1}, {FuncG})}
    ELSE IF f = "v2" THEN {FileInfo({ClassA2}, {})}
    ELSE IF f = "v3" THEN {FileInfo({}, {FuncK, FuncJ})}
    ELSE IF f = "v4" THEN {FileInfo({}, {FuncJ})}
    ELSE {}

\* os.listdir without the entries that start with "."
VisibleEntries(f, path) ==
    IF f = "bare" THEN {}
    ELSE IF path = RootPath THEN {"src"}
    ELSE IF path = "src" THEN {FileName}
    ELSE {}

isdir(f, path) == path = RootPath \/ (path = "src" /\ f # "bare")
isfile(f, path) == path = FilePath /\ f # "bare"

\* FolderAstAnalyzer.analyze_folder: the first visible entry is tested against
\* self.EXCLUDED_DIRS, an attribute of FileAstAnalyzer that FolderAstAnalyzer does not
\* have; the AttributeError is caught and None is returned
analyze_folder(f, path) ==
    IF VisibleEntries(f, path) # {} THEN {}
    ELSE {[name |-> IF path = RootPath THEN RootName ELSE path, path |-> path,
           files |-> {}, subfolders |-> {}]}

\* parent_folder_node = None
NoFolder == [name |-> "", path |-> "", files |-> {}, subfolders |-> {}]

\* a MERGE that sets updated_at only when it creates the node
UpsertOnCreate(g, key, set, oncreate, t) ==
    IF key \in DOMAIN g.nodes
    THEN [g EXCEPT !.nodes[key] = ApplyPatch(g.nodes[key], set)]
    ELSE [g EXCEPT !.nodes = (key :> ApplyPatch(ApplyPatch(ApplyPatch(NoProps, oncreate), set),
                                              [created_at |-> t, updated_at |-> t])) @@ g.nodes]

\* MERGE (n {key}) ON CREATE SET oncreate, created_at  SET set, updated_at
Upsert(g, key, set, oncreate, t) ==
    IF key \in DOMAIN g.nodes
    THEN [g EXCEPT !.nodes[key] = ApplyPatch(ApplyPatch(g.nodes[key], set), [updated_at |-> t])]
    ELSE [g EXCEPT !.nodes = (key :> ApplyPatch(ApplyPatch(ApplyPatch(NoProps, oncreate), set),
                                              [created_at |-> t, updated_at |-> t])) @@ g.nodes]

\* MATCH (a) MATCH (b) MERGE (a)-[:type]->(b): nothing when one end is missing
MergeEdge(g, from, type, to) ==
    IF from \in DOMAIN g.nodes /\ to \in DOMAIN g.nodes
    THEN [g EXCEPT !.edges = g.edges \cup {<<from, type, to>>}]
    ELSE g

\* DETACH DELETE of the nodes in gone
DetachDelete(g, gone) ==
    [nodes |-> [k \in (DOMAIN g.nodes) \ gone |-> g.nodes[k]],
     edges |-> {e \in g.edges : e[1] \notin gone /\ e[3] \notin gone}]

save_project(g, t) == Upsert(g, ProjectKey, << >>, << >>, t)

\* _update_folder_contains_file
update_folder_contains_file(g, folder_node, file_node) ==
    MergeEdge(g, FolderKey(folder_node.name, folder_node.path), "CONTAINS",
              FileKey(file_node.name, file_node.file_path))

RECURSIVE UpdateFolderFiles(_, _, _)
UpdateFolderFiles(g, folder_node, todo) ==
    IF todo = {} THEN g
    ELSE LET file == CHOOSE x \in todo : TRUE
         IN UpdateFolderFiles(update_folder_contains_file(g, folder_node, file), folder_node,
                              todo \ {file})

\* save_folder_node: the folder, its edge from the parent folder or from the project, its
\* subfolders, and the edge to each of its files (save_file_node is not called here)
RECURSIVE save_folder_node(_, _, _, _)
RECURSIVE SaveSubfolders(_, _, _, _)
save_folder_node(g, folder_node, parent_folder_node, t) ==
    LET key == FolderKey(folder_node.name, folder_node.path)
        g1 == Upsert(g, key, << >>, << >>, t)
        g2 == IF parent_folder_node # NoFolder /\ parent_folder_node.name # ""
              THEN MergeEdge(g1, FolderKey(parent_folder_node.name, parent_folder_node.path),
                             "CONTAINS", key)
              ELSE MergeEdge(g1, ProjectKey, "CONTAINS", key)
        g3 == SaveSubfolders(g2, folder_node, folder_node.subfolders, t)
    IN UpdateFolderFiles(g3, folder_node, folder_node.files)

SaveSubfolders(g, folder_node, todo, t) ==
    IF todo = {} THEN g
    ELSE LET sub == CHOOSE x \in todo : TRUE
         IN SaveSubfolders(save_folder_node(g, sub, folder_node, t), folder_node, todo \ {sub}, t)

\* _save_function_calls: nothing when the caller is not matched; the callee is created
\* as an api stub when it is missing
save_function_calls(g, function_node, call_info, t) ==
    LET caller == FunctionKey(function_node.name, function_node.full_name, function_node.signature)
        callee == FunctionKey(call_info.name, call_info.full_name, call_info.signature)
    IN IF caller \notin DOMAIN g.nodes THEN g
       ELSE MergeEdge(Upsert(g, callee, << >>, [node_type |-> "api"], t), caller, "CALLS", callee)

RECURSIVE SaveCalls(_, _, _, _)
SaveCalls(g, function_node, todo, t) ==
    IF todo = {} THEN g
    ELSE LET call == CHOOSE x \in todo : TRUE
         IN SaveCalls(save_function_calls(g, function_node, call, t), function_node, todo \ {call}, t)

\* save_function_node: a top-level function of the file
save_function_node(g, file_node, function_node, t) ==
    LET key == FunctionKey(function_node.name, function_node.full_name, function_node.signature)
        g1 == Upsert(g, key, [file_path |-> file_node.file_path], << >>, t)
        g2 == MergeEdge(g1, FileKey(file_node.name, file_node.file_path), "CONTAINS", key)
    IN SaveCalls(g2, function_node, function_node.calls, t)

\* save_method_node: the method carries the file_path of its class and hangs under the class
save_method_node(g, class_node, function_node, t) ==
    LET key == FunctionKey(function_node.name, function_node.full_name, function_node.signature)
        g1 == Upsert(g, key, [file_path |-> class_node.file_path], << >>, t)
        g2 == MergeEdge(g1, ClassKey(class_node.name, class_node.full_name), "CONTAINS", key)
    IN SaveCalls(g2, function_node, function_node.calls, t)

RECURSIVE SaveMethods(_, _, _, _)
SaveMethods(g, class_node, todo, t) ==
    IF todo = {} THEN g
    ELSE LET m == CHOOSE x \in todo : TRUE
         IN SaveMethods(save_method_node(g, class_node, m, t), class_node, todo \ {m}, t)

\* _save_class_inheritance: the base class is created as a stub when it is missing; the
\* edge is IMPLEMENTS when the stored node_type of the base class is 'interface'
RECURSIVE save_class_inheritance(_, _, _, _)
save_class_inheritance(g, class_node, todo, t) ==
    IF todo = {} \/ ClassKey(class_node.name, class_node.full_name) \notin DOMAIN g.nodes THEN g
    ELSE LET base == CHOOSE x \in todo : TRUE
             c == ClassKey(class_node.name, class_node.full_name)
             base_class == ClassKey(base.name, base.full_name)
             g1 == Upsert(g, base_class, << >>, [node_type |-> base.node_type], t)
             type == IF g1.nodes[base_class].node_type = "interface" THEN "IMPLEMENTS" ELSE "INHERITS"
         IN save_class_inheritance(MergeEdge(g1, c, type, base_class), class_node, todo \ {base}, t)

\* save_class_node
save_class_node(g, file_node, class_node, t) ==
    LET key == ClassKey(class_node.name, class_node.full_name)
        g1 == Upsert(g, key, [file_path |-> file_node.file_path, node_type |-> class_node.node_type],
                     << >>, t)
        g2 == MergeEdge(g1, FileKey(file_node.name, file_node.file_path), "CONTAINS", key)
        g3 == save_class_inheritance(g2, class_node, class_node.base_classes, t)
    IN SaveMethods(g3, class_node, class_node.methods, t)

RECURSIVE SaveClasses(_, _, _, _)
SaveClasses(g, file_node, todo, t) ==
    IF todo = {} THEN g
    ELSE LET c == CHOOSE x \in todo : TRUE
         IN SaveClasses(save_class_node(g, file_node, c, t), file_node, todo \ {c}, t)

RECURSIVE SaveFunctions(_, _, _, _)
SaveFunctions(g, file_node, todo, t) ==
    IF todo = {} THEN g
    ELSE LET f == CHOOSE x \in todo : TRUE
         IN SaveFunctions(save_function_node(g, file_node, f, t), file_node, todo \ {f}, t)

\* save_file_node: the File node, then its classes, then its top-level functions; no
\* edge from a folder is made here
save_file_node(g, file_node, t) ==
    LET g1 == Upsert(g, FileKey(file_node.name, file_node.file_path), << >>, << >>, t)
    IN SaveFunctions(SaveClasses(g1, file_node, file_node.classes, t), file_node,
                     file_node.functions, t)

\* delete_stale_nodes: n.updated_at < datetime($before_timestamp) AND NOT n:Project
delete_stale_nodes(g, before_timestamp) ==
    DetachDelete(g, {k \in DOMAIN g.nodes :
                        g.nodes[k].updated_at < before_timestamp /\ Label(k) # "Project"})

\* delete_file_nodes: MATCH (f:File {file_path})-[:CONTAINS]->(n) DETACH DELETE n WITH f
\* DETACH DELETE f.  A row of the match is a file with one node it contains, so only the
\* nodes one CONTAINS edge away are deleted, and the file only when it contains something.
delete_file_nodes(g, file_path) ==
    LET matched == {e \in g.edges : /\ Label(e[1]) = "File" /\ e[1][3] = file_path
                                    /\ e[2] = "CONTAINS"}
    IN DetachDelete(g, {e[1] : e \in matched} \cup {e[3] : e \in matched})

\* the characters of the path strings of the model
Chars == ("." :> <<".">>) @@ ("src" :> <<"s", "r", "c">>) @@ ("src2" :> <<"s", "r", "c", "2">>)

\* a STARTS WITH b
StartsWith(a, b) == Len(Chars[b]) <= Len(Chars[a]) /\ SubSeq(Chars[a], 1, Len(Chars[b])) = Chars[b]

\* delete_folder_nodes: the folders whose path starts with folder_path, the files they
\* contain and the classes and functions those files contain
delete_folder_nodes(g, folder_path) ==
    LET folders == {k \in DOMAIN g.nodes : Label(k) = "Folder" /\ StartsWith(k[3], folder_path)}
        files == {e[3] : e \in {x \in g.edges : /\ x[1] \in folders /\ x[2] = "CONTAINS"
                                                 /\ Label(x[3]) = "File"}}
        inner == {e[3] : e \in {x \in g.edges : /\ x[1] \in files /\ x[2] = "CONTAINS"
                                                 /\ Label(x[3]) \in {"Function", "Class"}}}
    IN DetachDelete(g, folders \cup files \cup inner)

Graph == [nodes |-> nodes, edges |-> edges]

GraphStep(name, arg, result, g) ==
    /\ now < MaxClock
    /\ now' = now + 1
    /\ nodes' = g.nodes
    /\ edges' = g.edges
    /\ gop' = [name |-> name, arg |-> arg, result |-> result,
               repeat |-> (gop.name = name /\ gop.arg = arg)]
    /\ UNCHANGED fs
    /\ UNCHANGED cvars

\* CodeGraphGenerator.generate_graph: save_folder_node(project_id, None) raises when the
\* analysis gave None, after the project has been saved
generate_graph(clean_stale) ==
    LET start_time == now + 1
        g1 == save_project(Graph, start_time)
        root_folder == analyze_folder(fs, RootPath)
    IN IF root_folder = {}
       THEN GraphStep("generate_graph", clean_stale, "raise", g1)
       ELSE \E root \in root_folder :
              LET g2 == save_folder_node(g1, root, NoFolder, start_time)
              IN GraphStep("generate_graph", clean_stale, "ok",
                           IF clean_stale THEN delete_stale_nodes(g2, start_time) ELSE g2)

GenerateGraph == \E clean_stale \in BOOLEAN : generate_graph(clean_stale)

\* CodeGraphGenerator.update_files for one path: a path that is no file is skipped
update_files(file_path) ==
    IF ~isfile(fs, file_path)
    THEN GraphStep("update_files", file_path, "skip", Graph)
    ELSE LET g1 == delete_file_nodes(Graph, file_path)
             file_node == analyze_file(fs)
         IN IF file_node = {}
            THEN GraphStep("update_files", file_path, "none", g1)
            ELSE \E file \in file_node :
                   GraphStep("update_files", file_path, "ok", save_file_node(g1, file, now + 1))

UpdateFiles == update_files(FilePath)

\* CodeGraphGenerator.update_folders for one path
update_folders(folder_path) ==
    IF ~isdir(fs, folder_path)
    THEN GraphStep("update_folders", folder_path, "skip", Graph)
    ELSE LET g1 == delete_folder_nodes(Graph, folder_path)
             folder_node == analyze_folder(fs, folder_path)
         IN IF folder_node = {}
            THEN GraphStep("update_folders", folder_path, "none", g1)
            ELSE \E folder \in folder_node :
                   GraphStep("update_folders", folder_path, "ok",
                             save_folder_node(g1, folder, NoFolder, now + 1))

UpdateFolders == \E folder_path \in FolderPaths : update_folders(folder_path)

\* Neo4jClient.delete_file_nodes called by a client
DeleteFileNodes == GraphStep("delete_file_nodes", FilePath, "ok", delete_file_nodes(Graph, FilePath))

\* Neo4jClient.save_class_node called by a client for a class of src/a.py
SaveClassNode ==
    \E class_node \in {ClassD, ClassI, ClassA1} :
        GraphStep("save_class_node", class_node.name, "ok",
                  save_class_node(Graph, FileInfo({}, {}), class_node, now + 1))

\* the repository changes on disk
EditRepo ==
    /\ \E f \in FsStates \ {fs} : fs' = f
    /\ gop' = [name |-> "edit", arg |-> fs, result |-> "ok", repeat |-> FALSE]
    /\ UNCHANGED <<nodes, edges, now>>
    /\ UNCHANGED cvars

InitGraph ==
    /\ run = "graph"
    /\ rows = [i \in {} |-> NewRow("function", "r1", "a.py")]
    /\ nextId = 1
    /\ spaces = [n \in {} |-> [vector_size |-> 0, recs |-> NoRecs]]
    /\ provider = FirstDim
    /\ op = Op("init", Null, {}, {}, NoIns, 0)
    /\ trace = << >>
    /\ GInit

NextGraph ==
    \/ EditRepo
    \/ GenerateGraph
    \/ UpdateFiles
    \/ UpdateFolders
    \/ DeleteFileNodes

SpecGraph == InitGraph /\ [][NextGraph]_vars

\* classes saved one by one, in any order and any number of times
NextClasses == SaveClassNode

SpecClasses == InitGraph /\ [][NextClasses]_vars

\* ------------------------------------------------------- specifications
\* the indexing pipeline: rows are created, summarized and vectorized, one pipeline per run
InitIndex == Init /\ run # "chunk"

NextIndex ==
    \/ Create
    \/ SetChunkSummary
    \/ ScanAndGenerateSummaryOk
    \/ Vectorize
    \/ VectorizeSource
    \/ VectorizeSummary
    \/ ScanAndVectorize
    \/ ScanAndVectorizeSource
    \/ ScanAndVectorizeSummary

\* one run for each vectorize method of the two files: RepoClassesMgmt.vectorize is
\* RepoFunctionsMgmt.vectorize with the names of the table and of its columns replaced
InitPipelines == Init /\ run \in {"function", "chunk_source", "chunk_summary"}

SpecIndex == InitPipelines /\ [][NextIndex]_vars

\* summaries: every outcome of the chat, on every table
NextSummary ==
    \/ Create
    \/ ScanAndGenerateSummary
    \/ ScanAndVectorize
    \/ ScanAndVectorizeSource
    \/ ScanAndVectorizeSummary

SpecSummary == Init /\ [][NextSummary]_vars

\* the operations that a caller of the Mgmt classes has on single rows
NextRows ==
    \/ Create
    \/ Update
    \/ ScanAndGenerateSummaryOk
    \/ Vectorize
    \/ VectorizeSource
    \/ VectorizeSummary
    \/ ScanAndVectorize
    \/ ScanAndVectorizeSource
    \/ ScanAndVectorizeSummary
    \/ Delete

SpecRows == InitIndex /\ [][NextRows]_vars

\* indexing and removal
NextDelete ==
    \/ Create
    \/ SetChunkSummary
    \/ ScanAndGenerateSummaryOk
    \/ Vectorize
    \/ VectorizeSource
    \/ VectorizeSummary
    \/ ScanAndVectorize
    \/ ScanAndVectorizeSource
    \/ ScanAndVectorizeSummary
    \/ Delete
    \/ DeleteByRepoId

SpecDelete == InitIndex /\ [][NextDelete]_vars

\* the life of the vector spaces: writes, removals and searches
NextSpaces ==
    \/ Create
    \/ SetChunkSummary
    \/ ScanAndGenerateSummaryOk
    \/ ScanAndVectorize
    \/ ScanAndVectorizeSource
    \/ ScanAndVectorizeSummary
    \/ Delete
    \/ DeleteByRepoId
    \/ Search

SpecSpaces == InitIndex /\ [][NextSpaces]_vars

\* indexing while the embedding provider changes
NextProvider ==
    \/ Create
    \/ SetChunkSummary
    \/ ScanAndGenerateSummaryOk
    \/ ScanAndVectorize
    \/ ScanAndVectorizeSource
    \/ ScanAndVectorizeSummary
    \/ ChangeProvider

SpecProvider == InitIndex /\ [][NextProvider]_vars

\* the two pipelines of the chunk table, interleaved
InitChunk == Init /\ run = "chunk"

NextChunk ==
    \/ Create
    \/ UpdateChunkSummary
    \/ ScanSourceWhole
    \/ ScanSummaryWhole

SpecChunk == InitChunk /\ [][NextChunk]_vars

\* the scans of the functions and classes tables, invoked again and again; a call of
\* scan_and_generate_summary in which the chat answers every row and every commit succeeds,
\* and a call of scan_and_vectorize in which the embedding model, the store and every commit
\* succeed, happen again and again as long as there are rows for them
InitScans == Init /\ run \in {"function", "class"}

\* scan_and_vectorize with the outcomes of a whole call: nothing fails, or insert_records
\* reports every id as failed
ScanWhole ==
    /\ table # "chunk"
    /\ \E repo \in Repos : \E limit \in LimitsFor(get_unvectorized(rows, repo)) :
       \E sel \in Limited(get_unvectorized(rows, repo), limit) :
            IF sel = {} THEN NothingToDo("scan_and_vectorize", repo)
            ELSE \E inp \in WholeOutcomes(sel) :
                    Applied("scan_and_vectorize", vectorize(sel, Embedded, inp))

\* scan_and_generate_summary with any answer of the chat for each row, and commits that
\* succeed or fail for the whole call
ScanGenerateWhole ==
    \E repo \in Repos : \E limit \in LimitsFor(get_unsummarized(rows, repo)) :
    \E sel \in Limited(get_unsummarized(rows, repo), limit) :
    \E llm \in [sel -> LlmOutcomes], dbfail \in {{}, sel} :
        /\ rows' = SummarizeAll(rows, sel, table, llm, dbfail)
        /\ op' = Op("scan_and_generate_summary", Null, sel,
                    {i \in sel : table # "chunk" /\ llm[i] = "fail"}, NoIns,
                    Cardinality({i \in sel : Truthy(generate_summary(table, llm[i]))}))
        /\ trace' = << >>
        /\ UNCHANGED gvars /\ UNCHANGED <<run, nextId, spaces, provider>>

NextScans ==
    \/ Create
    \/ ScanGenerateWhole
    \/ ScanWhole

SummarizeSucceeds ==
    \E repo \in Repos : \E limit \in LimitsFor(get_unsummarized(rows, repo)) :
    \E sel \in Limited(get_unsummarized(rows, repo), limit) :
        /\ sel # {}
        /\ op' = Op("scan_and_generate_summary", Null, sel, {}, NoIns, Cardinality(sel))
        /\ rows' = SummarizeAll(rows, sel, table, [i \in sel |-> "ok"], {})
        /\ trace' = << >>
        /\ UNCHANGED gvars /\ UNCHANGED <<run, nextId, spaces, provider>>

\* the call of scan_and_vectorize in which nothing fails, written out: the rows of sel belong
\* to one repo, so that repo_groups has one group
VectorizeSucceeds ==
    \E repo \in Repos : \E limit \in LimitsFor(get_unvectorized(rows, repo)) :
    \E sel \in Limited(get_unvectorized(rows, repo), limit) :
        /\ sel # {}
        /\ WithSummary(rows, sel) = sel
        /\ op' = Op("scan_and_vectorize", Null, {}, {}, [NoIns EXCEPT ![repo] = "ok"], Cardinality(sel))
        /\ rows' = [i \in DOMAIN rows |->
                        IF i \in sel THEN ApplyPatch(rows[i], [is_vectorized |-> TRUE]) ELSE rows[i]]
        /\ spaces' = insert_records(get_vector_space(spaces, repo, table, provider, TRUE),
                                    SpaceName(repo, table),
                                    [i \in sel |-> [text |-> rows[i].summary,
                                                    file_path |-> rows[i].file_path,
                                                    dim |-> provider]],
                                    {})
        /\ trace' = << >>
        /\ UNCHANGED gvars /\ UNCHANGED <<run, nextId, provider>>

\* the same call, through vectorize
VectorizeSucceedsCall ==
    \E repo \in Repos : \E limit \in LimitsFor(get_unvectorized(rows, repo)) :
    \E sel \in Limited(get_unvectorized(rows, repo), limit) :
        /\ sel # {}
        /\ Applied("scan_and_vectorize", vectorize(sel, Embedded, Quiet))

\* the written-out call is the call through vectorize
VectorizeSucceedsIsTheCall == [][VectorizeSucceeds <=> VectorizeSucceedsCall]_vars

\* where a successful call can be taken, the scans of NextScans can take it
SuccessIsAScan ==
    /\ ENABLED VectorizeSucceeds <=> ENABLED (VectorizeSucceedsCall /\ ScanWhole)
    /\ ENABLED SummarizeSucceeds <=> ENABLED (SummarizeSucceeds /\ ScanGenerateWhole)

SpecScansAnyOutcome == InitScans /\ [][NextScans]_vars

SpecScans ==
    /\ InitScans /\ [][NextScans]_vars
    /\ WF_vars(SummarizeSucceeds) /\ WF_vars(VectorizeSucceeds)

\* vectorize calls over tables of up to three embedding batches: a table of n rows of one
\* repo, summarized on the functions and classes tables, and calls that pass all the rows
MaxBatchRows == 33

BatchRuns == {"function", "class", "chunk_source"}

InitBatches ==
    /\ run \in BatchRuns
    /\ \E n \in 1..MaxBatchRows, repo \in Repos :
        /\ rows = [i \in 1..n |-> IF table = "chunk" THEN NewRow(table, repo, "a.py")
                                  ELSE ApplyPatch(NewRow(table, repo, "a.py"), SummaryPatch(LLM_TEXT))]
        /\ nextId = n + 1
    /\ spaces = [n \in {} |-> [vector_size |-> 0, recs |-> NoRecs]]
    /\ provider = FirstDim
    /\ op = Op("init", Null, {}, {}, NoIns, 0)
    /\ trace = << >>
    /\ GInit

\* the store outcomes of a whole call, drawn when the embedding is complete
BatchStore(emb, ws) == IF Complete(emb, ws) THEN WholeOutcomes(ws) ELSE {Quiet}

\* vectorize(all rows) with the embedding outcome emb
VectorizeAllWith(emb) ==
    /\ table # "chunk"
    /\ \E inp \in BatchStore(emb, DOMAIN rows) :
            Applied("vectorize", vectorize(DOMAIN rows, emb, inp))

\* vectorize_source(all rows) with the embedding outcome emb
VectorizeSourceAllWith(emb) ==
    /\ run = "chunk_source"
    /\ \E inp \in BatchStore(emb, DOMAIN rows) :
            Applied("vectorize_source", vectorize_source(DOMAIN rows, emb, inp))

VectorizeAll == \E emb \in EmbOutcomes(Cardinality(DOMAIN rows)) : VectorizeAllWith(emb)

VectorizeSourceAll == \E emb \in EmbOutcomes(Cardinality(DOMAIN rows)) : VectorizeSourceAllWith(emb)

NextBatches ==
    \/ VectorizeAll
    \/ VectorizeSourceAll

SpecBatches == InitBatches /\ [][NextBatches]_vars

\* ------------------------------------------------------- properties of the tables
ChunkRun == run \in {"chunk_source", "chunk_summary", "chunk"}

\* C1: on the RepoFunctions and RepoClasses tables every row with is_vectorized = true
\* has is_summarized = true and a summary that is not null
C1_VectorizedIsSummarized ==
    ~ChunkRun => \A i \in DOMAIN rows :
                    rows[i].is_vectorized => rows[i].is_summarized /\ rows[i].summary # Null

\* C2: on the RepoCodeChunks table every row with is_summary_vectorized = true has
\* is_summarized = true
C2_SummaryVectorizedIsSummarized ==
    ChunkRun => \A i \in DOMAIN rows : rows[i].is_summary_vectorized => rows[i].is_summarized

VectorFlags == IF ChunkRun THEN {"is_source_vectorized", "is_summary_vectorized"} ELSE {"is_vectorized"}

\* the flag that an operation sets
FlagOf(name) ==
    IF name \in {"vectorize", "scan_and_vectorize"} THEN "is_vectorized"
    ELSE IF name \in {"vectorize_source", "scan_and_vectorize_source"} THEN "is_source_vectorized"
    ELSE IF name \in {"vectorize_summary", "scan_and_vectorize_summary"} THEN "is_summary_vectorized"
    ELSE Null

\* the rows that the scan of the flag selects
Selected(rs, flag, repo) ==
    IF flag = "is_vectorized" THEN get_unvectorized(rs, repo)
    ELSE IF flag = "is_source_vectorized" THEN get_source_unvectorized(rs, repo)
    ELSE get_summary_unvectorized(rs, repo)

\* C3: a vector flag of a row goes from false to true only in a vectorize call whose
\* insert_records call for the repo group of the row reported no failed id; when
\* insert_records reports a failed id for a group, no row of the group changes and the
\* rows that the scan selected are selected again
C3_FlagsFollowInsert ==
    [][/\ rows' # rows =>
            \A i \in (DOMAIN rows) \cap (DOMAIN rows') : \A f \in VectorFlags :
                (~rows[i][f] /\ rows'[i][f])
                    => (f = FlagOf(op'.name) /\ op'.ins[rows[i].repo_id] = "ok")
       /\ \A r \in Repos :
            (FlagOf(op'.name) # Null /\ op'.ins[r] = "failed")
                => /\ \A i \in DOMAIN rows : rows[i].repo_id = r => rows'[i] = rows[i]
                   /\ Selected(rows, FlagOf(op'.name), r) \subseteq Selected(rows', FlagOf(op'.name), r)
      ]_vars

\* one call in which the group of r1 was inserted and flagged and the group of r2 was
\* reported as failed and stays selected
C3_Witness ==
    /\ op.name = "vectorize"
    /\ op.ins["r1"] = "ok" /\ op.ins["r2"] = "failed"
    /\ \E i, j \in DOMAIN rows :
        /\ rows[i].repo_id = "r1" /\ rows[i].is_vectorized
        /\ rows[j].repo_id = "r2" /\ j \in get_unvectorized(rows, "r2")

\* C4: a row whose chat failed during scan_and_generate_summary keeps its summary and
\* is_summarized = false, and is not counted in the result
C4_LlmFailureLeavesRow ==
    [][op'.name = "scan_and_generate_summary"
        => /\ \A i \in op'.bad : rows'[i] = rows[i] /\ ~rows'[i].is_summarized
           /\ op'.ret <= Cardinality(op'.ids \ op'.bad)
      ]_vars

\* C5: a delete that removes the row has called the vector record deletion first
C5_DeleteCallsHookFirst ==
    (op.name = "delete" /\ \E k \in DOMAIN trace : trace[k] = "db_delete")
        => trace[1] = "delete_vector_record"

\* C6: after delete_by_repo_id of r has returned True no row of r and no space of r
\* for the purposes of the table remains
C6_RepoGone ==
    (op.name = "delete_by_repo_id" /\ op.ret = TRUE)
        => /\ \A i \in DOMAIN rows : rows[i].repo_id # op.repo
           /\ \A p \in Purposes(table) : SpaceName(op.repo, p) \notin DOMAIN spaces

\* ------------------------------------------------------- properties of the graph
\* the Class and Function nodes whose file_path is the file
Attributed(file_path) ==
    {k \in DOMAIN nodes : Label(k) \in {"Class", "Function"} /\ nodes[k].file_path = file_path}

\* C7: after delete_file_nodes(p, f) no Class or Function node of f (methods included)
\* and no File node of f remains, and no edge has a missing end
C7_FileNodesGone ==
    gop.name = "delete_file_nodes"
        => /\ Attributed(gop.arg) = {}
           /\ \A k \in DOMAIN nodes : ~(Label(k) = "File" /\ k[3] = gop.arg)
           /\ \A e \in edges : e[1] \in DOMAIN nodes /\ e[3] \in DOMAIN nodes

RECURSIVE ContainsPaths(_, _)
RECURSIVE SumPaths(_, _)
ContainsPaths(k, d) ==
    IF k = ProjectKey THEN 1
    ELSE IF d = 0 THEN 0
    ELSE SumPaths({e[1] : e \in {x \in edges : x[3] = k /\ x[2] = "CONTAINS"}}, d - 1)

SumPaths(S, d) ==
    IF S = {} THEN 0
    ELSE LET k == CHOOSE x \in S : TRUE IN ContainsPaths(k, d) + SumPaths(S \ {k}, d)

\* C9: every node that is not the Project has exactly one CONTAINS path from the Project
C9_OneContainsPath ==
    \A k \in DOMAIN nodes :
        Label(k) # "Project" => ContainsPaths(k, Cardinality(DOMAIN nodes)) = 1

\* the keys of the classes, methods and top-level functions of an analyzed file
EntityKeys(file_node) ==
    {ClassKey(c.name, c.full_name) : c \in file_node.classes}
    \cup {FunctionKey(f.name, f.full_name, f.signature) : f \in file_node.functions}
    \cup UNION {{FunctionKey(m.name, m.full_name, m.signature) : m \in c.methods} :
                    c \in file_node.classes}

\* C10: on a project that generate_graph has materialized, after update_files([f]) the
\* Class and Function nodes of f are exactly the entities of the re-parse of f
C10_UpdateFilesReplaces ==
    (/\ {ProjectKey, FolderKey(RootName, RootPath)} \subseteq DOMAIN nodes
     /\ gop.name = "update_files" /\ gop.result = "ok")
        => \A file_node \in analyze_file(fs) : Attributed(gop.arg) = EntityKeys(file_node)

\* C11: a node keeps its created_at unless the step deleted it and made it anew, an upsert
\* never moves updated_at back, and after an update_files of f on a project that
\* generate_graph has materialized the File node of f has updated_at newer than created_at
C11_CreatedAtIsKept ==
    [][/\ \A k \in (DOMAIN nodes) \cap (DOMAIN nodes') :
            /\ nodes'[k].created_at = nodes[k].created_at \/ nodes'[k].created_at = now'
            /\ nodes[k].updated_at <= nodes'[k].updated_at
       /\ (/\ {ProjectKey, FolderKey(RootName, RootPath)} \subseteq DOMAIN nodes
           /\ gop'.name = "update_files" /\ gop'.result = "ok")
            => nodes'[FileKey(FileName, FilePath)].created_at
                    < nodes'[FileKey(FileName, FilePath)].updated_at
      ]_vars

\* the nodes that an analysis of the repository on disk describes: the folders, the file
\* and the classes, methods and functions of the file
FreshKeys(f) ==
    {FolderKey(RootName, RootPath)}
    \cup (IF f = "bare" THEN {} ELSE {FolderKey("src", "src"), FileKey(FileName, FilePath)})
    \cup UNION {EntityKeys(file_node) : file_node \in analyze_file(f)}

\* the base classes and callees that the analysis names without defining them
StubKeys(f) ==
    UNION {{ClassKey(b.name, b.full_name) : b \in UNION {c.base_classes : c \in file_node.classes}}
           \cup {FunctionKey(h.name, h.full_name, h.signature) :
                    h \in UNION {g.calls : g \in file_node.functions}} :
           file_node \in analyze_file(f)}

\* C12: after generate_graph with clean_stale the Project node is there, every Folder,
\* File, Class and Function of the fresh analysis is there, and no other node is left
\* (but for the stubs that the analysis names)
C12_StaleNodesRemoved ==
    (gop.name = "generate_graph" /\ gop.arg = TRUE)
        => /\ ProjectKey \in DOMAIN nodes
           /\ FreshKeys(fs) \subseteq DOMAIN nodes
           /\ DOMAIN nodes \subseteq {ProjectKey} \cup FreshKeys(fs) \cup StubKeys(fs)

\* the Function nodes with the full name of k, and those among them that carry the
\* definition (the file_path that save_function_node sets)
NodesOfK == {n \in DOMAIN nodes : Label(n) = "Function" /\ n[3] = FuncK.full_name}
DefinitionsOfK == {n \in NodesOfK : nodes[n].file_path = FilePath}
CallsOfK ==
    {e \in edges : /\ e[2] = "CALLS"
                    /\ e[1] = FunctionKey(FuncJ.name, FuncJ.full_name, FuncJ.signature)
                    /\ e[3] \in NodesOfK}

\* C13: when the caller j and the definition of its callee k have both been saved, there
\* is one Function node with the full name of k, it carries the definition, and the CALLS
\* edge of j ends at it
C13_CalleeIsOneNode ==
    (DefinitionsOfK # {} /\ CallsOfK # {})
        => /\ Cardinality(NodesOfK) = 1
           /\ \A e \in CallsOfK : e[3] \in DefinitionsOfK

\* the inheritance edges from class c to class b
InheritanceEdges(c, b) ==
    {e \in edges : e[1] = c /\ e[3] = b /\ e[2] \in {"INHERITS", "IMPLEMENTS"}}

\* C14: a saved class D has exactly one inheritance edge to its base I, and an inheritance
\* edge to a base is IMPLEMENTS exactly when the node_type of the base is interface
C14_OneInheritanceEdge ==
    /\ ClassKey(ClassD.name, ClassD.full_name) \in DOMAIN nodes
            => Cardinality(InheritanceEdges(ClassKey(ClassD.name, ClassD.full_name),
                                            ClassKey(ClassI.name, ClassI.full_name))) = 1
    /\ \A e \in edges :
            e[2] \in {"INHERITS", "IMPLEMENTS"}
                => (e[2] = "IMPLEMENTS" <=> nodes[e[3]].node_type = "interface")

\* C15: a vector space comes into being only in a vectorize call
C15_OnlyVectorizeCreatesSpaces ==
    [][(DOMAIN spaces') \ (DOMAIN spaces) # {} => FlagOf(op'.name) # Null]_vars

\* C16: every record of a space has the dimension the space was created with
C16_SpaceHasOneDimension ==
    \A name \in DOMAIN spaces : \A i \in DOMAIN spaces[name].recs :
        spaces[name].recs[i].dim = spaces[name].vector_size

\* the space of a purpose is the same before and after the step, for every repo
SpacesKept(purpose) ==
    \A r \in Repos :
        /\ SpaceName(r, purpose) \in DOMAIN spaces <=> SpaceName(r, purpose) \in DOMAIN spaces'
        /\ SpaceName(r, purpose) \in DOMAIN spaces
                => spaces'[SpaceName(r, purpose)] = spaces[SpaceName(r, purpose)]

C18_EveryRowIsIndexed ==
    []<>(\A i \in DOMAIN rows : rows[i].is_summarized /\ rows[i].is_vectorized)

\* the same, row by row
NoRowIsStarved ==
    \A i \in Ids :
        (i \in DOMAIN rows)
            ~> (i \in DOMAIN rows /\ rows[i].is_summarized /\ rows[i].is_vectorized)

\* two rows of one repo have both been indexed by scans of limit 1 at least, and the
\* scan that finished the second one has run
C18_Witness ==
    /\ run \in {"function", "class"}
    /\ op.name = "scan_and_vectorize" /\ op.ret > 0
    /\ Cardinality(DOMAIN rows) > 1
    /\ \A i \in DOMAIN rows : rows[i].repo_id = "r1" /\ rows[i].is_summarized /\ rows[i].is_vectorized

\* a scan of the chunk table in which the chat answers every selected row with a text
ChunkScanAnswered ==
    /\ ChunkRun
    /\ \E repo \in Repos, limit \in Limits : scan_and_generate_summary(repo, limit, {"ok"})
    /\ op'.ids # {}

\* C19: when scan_and_generate_summary runs on the chunk table and the chat answers with a
\* non-empty text, every selected row is counted, and ends with summary = text and
\* is_summarized = true (a row whose commit failed is left as it was)
C19_ChunkScanStoresSummary ==
    [][ChunkScanAnswered =>
        /\ op'.ret = Cardinality(op'.ids)
        /\ \A i \in op'.ids :
            \/ rows'[i].summary = LLM_TEXT /\ rows'[i].is_summarized
            \/ rows'[i] = rows[i]
      ]_vars

\* the repo has rows and each of them has is_vectorized = true
FullyVectorized(repo) ==
    /\ \E i \in DOMAIN rows : rows[i].repo_id = repo
    /\ \A i \in DOMAIN rows : rows[i].repo_id = repo => rows[i].is_vectorized

\* C20: scan_and_vectorize with a limit of 1 or more, on a repo of the functions or classes
\* table whose rows all have is_vectorized = true, returns 0, changes no row and no space,
\* and inserts nothing: the step is the early return, before the embedding model is created
C20_NothingLeftToVectorize ==
    [][\A repo \in Repos :
          (/\ table # "chunk"
           /\ FullyVectorized(repo)
           /\ \E limit \in Limits : scan_and_vectorize(repo, limit))
             => /\ op'.ret = 0 /\ op'.ins = NoIns
                /\ rows' = rows /\ spaces' = spaces
                /\ NothingToDo("scan_and_vectorize", repo)
      ]_vars

\* every repo has rows, all rows are vectorized, and a scan that found nothing has returned
C20_Witness ==
    /\ table # "chunk"
    /\ op.name = "scan_and_vectorize" /\ op.ret = 0 /\ op.ins = NoIns
    /\ \A repo \in Repos : FullyVectorized(repo)

\* the fields of a row that are flags
Flags(r) == (DOMAIN r) \ {"repo_id", "file_path", "summary"}

\* C21: create inserts a row whose flags are all false and whose summary is null, whether or
\* not the request carries a summary, and leaves the other rows alone; the new row is among
\* the rows that scan_and_generate_summary selects from
C21_CreatedRowIsBlank ==
    [][op'.name = "create" =>
        /\ DOMAIN rows' = (DOMAIN rows) \cup {nextId}
        /\ \A i \in DOMAIN rows : rows'[i] = rows[i]
        /\ rows'[nextId].summary = Null
        /\ \A f \in Flags(rows'[nextId]) : rows'[nextId][f] = FALSE
        /\ nextId \in get_unsummarized(rows', rows'[nextId].repo_id)
      ]_vars

\* a row has been created (a request with a summary and one without give the same row), and
\* the scan that follows has selected it
C21_Witness ==
    /\ op.name = "scan_and_generate_summary"
    /\ nextId - 1 \in op.ids
    /\ nextId - 1 \in DOMAIN rows

\* an embedding in which the model exists and some, not all or all, batches fail
SomeBatchFails(emb) == emb.ok /\ emb.failedBatches # {}

\* C22: a vectorize or vectorize_source call in which an embedding batch fails, so that the
\* vectors are fewer than the rows to embed, returns 0, inserts nothing and changes no row
C22_FailedBatchAbortsCall ==
    [][\A emb \in EmbOutcomes(Cardinality(DOMAIN rows)) :
          (SomeBatchFails(emb) /\ (VectorizeAllWith(emb) \/ VectorizeSourceAllWith(emb)))
             => /\ VectorCount(Cardinality(DOMAIN rows), emb.failedBatches) # Cardinality(DOMAIN rows)
                /\ op'.ret = 0 /\ op'.ins = NoIns
                /\ rows' = rows /\ spaces' = spaces
      ]_vars

\* a call over more rows than one batch holds has returned 0 and left every row unvectorized
C22_Witness ==
    /\ run \in BatchRuns
    /\ Cardinality(DOMAIN rows) > EMBEDDING_BATCH_SIZE
    /\ op.name \in {"vectorize", "vectorize_source"} /\ op.ret = 0 /\ op.ins = NoIns
    /\ spaces = << >>
    /\ \A i \in DOMAIN rows : \A f \in VectorFlags : ~rows[i][f]

\* ------------------------------------------------------- PythonAnalyzer._analyze_imports
\* Strings are sequences of characters.  fs is the file under analysis: the components of
\* its path below the project root (without the extension) and its one import statement;
\* gop.result is the import map that _analyze_imports returns.
MaxDepth == 3
MaxLevel == 4

PartNames == {<<"a">>, <<"b">>}
ImportedModules == {<< >>, <<"p">>, <<"p", ".", "q">>}
AliasName == <<"x">>

\* '.'.join(parts)
RECURSIVE Join(_)
Join(parts) ==
    IF parts = << >> THEN << >>
    ELSE IF Len(parts) = 1 THEN parts[1]
    ELSE parts[1] \o <<".">> \o Join(Tail(parts))

\* s.split('.'): ''.split('.') is ['']
RECURSIVE SplitFrom(_, _, _)
SplitFrom(s, cur, acc) ==
    IF s = << >> THEN Append(acc, cur)
    ELSE IF Head(s) = "." THEN SplitFrom(Tail(s), << >>, Append(acc, cur))
    ELSE SplitFrom(Tail(s), Append(cur, Head(s)), acc)

Split(s) == SplitFrom(s, << >>, << >>)

\* _get_module_path: the relative path without extension, os.sep replaced by '.'
get_module_path(components) == Join(components)

\* a slice that drops one part less than the level
RelativeBaseShort(current_parts, level) == SubSeq(current_parts, 1, Len(current_parts) - level + 1)

\* current_parts[:-level]
RelativeBase(current_parts, level) == SubSeq(current_parts, 1, Len(current_parts) - level)

\* the ImportFrom branch of _analyze_imports for one statement with one alias: the import
\* map after the statement
analyze_import_from(imports, current_module, level, module, name) ==
    LET current_parts == Split(current_module)
        base_path == Join(RelativeBase(current_parts, level))
        full_module == IF level > 0
                       THEN IF module # << >>
                            THEN IF base_path # << >> THEN base_path \o <<".">> \o module ELSE module
                            ELSE base_path
                       ELSE module
        target == IF full_module # << >> THEN full_module \o <<".">> \o name ELSE name
    IN IF level > 0 /\ Len(current_parts) < level THEN imports
       ELSE (name :> target) @@ imports

NoImports == [n \in {} |-> << >>]

InitImports ==
    /\ run = "imports"
    /\ rows = [i \in {} |-> NewRow("function", "r1", "a.py")]
    /\ nextId = 1
    /\ spaces = [n \in {} |-> [vector_size |-> 0, recs |-> NoRecs]]
    /\ provider = FirstDim
    /\ op = Op("init", Null, {}, {}, NoIns, 0)
    /\ trace = << >>
    /\ \E depth \in 1..MaxDepth : \E components \in [1..depth -> PartNames] :
       \E level \in 0..MaxLevel, module \in ImportedModules :
            fs = [components |-> components, level |-> level, module |-> module, name |-> AliasName]
    /\ nodes = << >>
    /\ edges = {}
    /\ now = 0
    /\ gop = [name |-> "init", arg |-> "", result |-> NoImports, repeat |-> FALSE]

AnalyzeImports ==
    /\ gop.name = "init"
    /\ gop' = [name |-> "_analyze_imports", arg |-> "", repeat |-> FALSE,
               result |-> analyze_import_from(NoImports, get_module_path(fs.components),
                                              fs.level, fs.module, fs.name)]
    /\ UNCHANGED <<fs, nodes, edges, now>>
    /\ UNCHANGED cvars

NextImports == AnalyzeImports

SpecImports == InitImports /\ [][NextImports]_vars

Languages == {"python", "java", "go"}
Packages == {"", "a", "a.b"}
ClassNames == {"A", "B"}
MethodDecls == {[name |-> "m", underscore |-> FALSE], [name |-> "_p", underscore |-> TRUE]}

\* FunctionInfo(...) of a method; class_name defaults to None
MethodInfo(name, full_name, type, class_name) ==
    [name |-> name, full_name |-> full_name, type |-> type, class_name |-> class_name]

\* f"{package}.{name}" if package else name
Qualified(package, name) == IF package # "" THEN package \o "." \o name ELSE name

\* PythonAnalyzer.analyze_class: analyze_function builds a function of the module, then
\* type, class_name and full_name are overwritten
python_analyze_class(decl) ==
    LET full_name == decl.package \o "." \o decl.name
        asFunction(d) == MethodInfo(d.name, decl.package \o "." \o d.name, "function", Null)
        asMethod(f) == [f EXCEPT !.type = "method", !.class_name = decl.name,
                                 !.full_name = full_name \o "." \o f.name]
    IN [name |-> decl.name, full_name |-> full_name,
        node_type |-> IF decl.kind = "interface" THEN "interface" ELSE "class",
        methods |-> {asMethod(asFunction(d)) : d \in decl.methods}]

\* JavaAnalyzer._create_class_node and _create_method_node: the methods whose name starts
\* with '_' are left out; FunctionInfo is built without class_name
java_create_class_node(decl) ==
    LET method_full_name(d) ==
            IF decl.package # "" THEN decl.package \o "." \o decl.name \o "." \o d.name
            ELSE decl.name \o "." \o d.name
    IN [name |-> decl.name, full_name |-> Qualified(decl.package, decl.name),
        node_type |-> "class",
        methods |-> {MethodInfo(d.name, method_full_name(d), "method", Null) :
                        d \in {x \in decl.methods : ~x.underscore}}]

\* GoAnalyzer._create_struct_node: an interface gets its methods from
\* _create_interface_method_node (full_name is the method name); _get_struct_methods
\* returns [] because the node it is given has no root_node
go_create_struct_node(decl) ==
    [name |-> decl.name, full_name |-> Qualified(decl.package, decl.name),
     node_type |-> IF decl.kind = "interface" THEN "interface" ELSE "struct",
     methods |-> IF decl.kind = "interface"
                 THEN {MethodInfo(d.name, d.name, "method", Null) : d \in decl.methods}
                 ELSE {}]

analyze_class(decl) ==
    IF decl.language = "python" THEN python_analyze_class(decl)
    ELSE IF decl.language = "java" THEN java_create_class_node(decl)
    ELSE go_create_struct_node(decl)

InitClassDecl ==
    /\ run = "analyze_class"
    /\ rows = [i \in {} |-> NewRow("function", "r1", "a.py")]
    /\ nextId = 1
    /\ spaces = [n \in {} |-> [vector_size |-> 0, recs |-> NoRecs]]
    /\ provider = FirstDim
    /\ op = Op("init", Null, {}, {}, NoIns, 0)
    /\ trace = << >>
    /\ \E language \in Languages, package \in Packages, kind \in {"class", "interface"} :
       \E name \in ClassNames, methods \in SUBSET MethodDecls :
            /\ language = "python" => package # ""
            /\ fs = [language |-> language, package |-> package, kind |-> kind,
                     name |-> name, methods |-> methods]
    /\ nodes = << >>
    /\ edges = {}
    /\ now = 0
    /\ gop = [name |-> "init", arg |-> "", result |-> {}, repeat |-> FALSE]

AnalyzeClass ==
    /\ gop.name = "init"
    /\ gop' = [name |-> "analyze_class", arg |-> fs.language, repeat |-> FALSE,
               result |-> {analyze_class(fs)}]
    /\ UNCHANGED <<fs, nodes, edges, now>>
    /\ UNCHANGED cvars

NextClassDecl == AnalyzeClass

SpecClassDecl == InitClassDecl /\ [][NextClassDecl]_vars

\* C24: every method m of every ClassInfo c that an analyzer returns has
\* m.class_name = c.name, m.full_name = c.full_name + "." + m.name and m.type = method
C24_MethodsBelongToClass ==
    (run = "analyze_class" /\ gop.name = "analyze_class")
        => \A c \in gop.result : \A m \in c.methods :
                /\ m.class_name = c.name
                /\ m.full_name = c.full_name \o "." \o m.name
                /\ m.type = "method"

\* ------------------------------------------------------- analyze_folder on directory trees
\* fs is a directory tree of two levels: the entries of the root and the entries of src
ExcludedNames == {"venv", "tests"}
HiddenNames == {".git"}
DirNames == {".git", "venv", "tests", "src"}
SourceFiles == {"a.py", "b.go"}
RootEntries == {".git", "venv", "src", "a.py", "notes.md"}
SrcEntries == {"b.go", "tests"}

\* FolderAstAnalyzer has no attribute EXCLUDED_DIRS (it is defined on FileAstAnalyzer)
FolderAnalyzerAttributes == {"base_path", "folder_path"}

listdir(tree, path) ==
    IF path = "." THEN tree.root
    ELSE IF path = "src" /\ "src" \in tree.root THEN tree.src
    ELSE {}

\* the loop of analyze_folder over the entries that are not skipped, one level below path
FolderOf(name, path, files, subfolders) ==
    [name |-> name, path |-> path, files |-> files, subfolders |-> subfolders]

\* analyze_folder of a leaf directory (a directory of the second level)
analyze_leaf(tree, item) ==
    LET entries == listdir(tree, item)
        tested == {e \in entries : e \notin HiddenNames}
    IN IF tested # {} /\ "EXCLUDED_DIRS" \notin FolderAnalyzerAttributes THEN {}
       ELSE {FolderOf(item, item,
                      {e \in tested : e \in SourceFiles /\ e \notin ExcludedNames}, {})}

\* analyze_folder: an entry that does not start with '.' is looked up in self.EXCLUDED_DIRS;
\* the AttributeError of that lookup is caught by the except branch, which returns None
analyze_tree(tree) ==
    LET entries == listdir(tree, ".")
        tested == {e \in entries : e \notin HiddenNames}
        kept == {e \in tested : e \notin ExcludedNames}
    IN IF tested # {} /\ "EXCLUDED_DIRS" \notin FolderAnalyzerAttributes THEN {}
       ELSE {FolderOf("repo", ".",
                      {e \in kept : e \in SourceFiles},
                      UNION {analyze_leaf(tree, d) : d \in {e \in kept : e \in DirNames}})}

InitTree ==
    /\ run = "analyze_folder"
    /\ rows = [i \in {} |-> NewRow("function", "r1", "a.py")]
    /\ nextId = 1
    /\ spaces = [n \in {} |-> [vector_size |-> 0, recs |-> NoRecs]]
    /\ provider = FirstDim
    /\ op = Op("init", Null, {}, {}, NoIns, 0)
    /\ trace = << >>
    /\ \E root \in SUBSET RootEntries, src \in SUBSET SrcEntries :
            /\ "src" \notin root => src = {}
            /\ fs = [root |-> root, src |-> src]
    /\ nodes = << >>
    /\ edges = {}
    /\ now = 0
    /\ gop = [name |-> "init", arg |-> "", result |-> {}, repeat |-> FALSE]

AnalyzeFolder ==
    /\ gop.name = "init"
    /\ gop' = [name |-> "analyze_folder", arg |-> ".", repeat |-> FALSE, result |-> analyze_tree(fs)]
    /\ UNCHANGED <<fs, nodes, edges, now>>
    /\ UNCHANGED cvars

NextTree == AnalyzeFolder

SpecTree == InitTree /\ [][NextTree]_vars

\* the names of a set of FileInfo or FolderInfo
NamesOf(S) == {x.name : x \in S}

\* C25: analyze_folder returns a FolderInfo (not None) whose subfolders are the directories
\* that are neither excluded nor hidden, at both levels, and whose files are the source
\* files; a root with excluded directories only and one source file gives that file and no
\* subfolder
C25_FolderInfoSkipsExcluded ==
    (run = "analyze_folder" /\ gop.name = "analyze_folder")
        => /\ gop.result # {}
           /\ \A info \in gop.result :
                /\ NamesOf(info.subfolders) = (fs.root \cap DirNames) \ (ExcludedNames \cup HiddenNames)
                /\ info.files = fs.root \cap SourceFiles
                /\ \A sub \in info.subfolders :
                    /\ sub.subfolders = {}
                    /\ sub.files = fs.src \cap SourceFiles

\* the purpose of the space that holds the records of a vector flag
PurposeOfFlag(flag) ==
    IF flag = "is_source_vectorized" THEN "chunk_source"
    ELSE IF flag = "is_summary_vectorized" THEN "chunk_summary"
    ELSE table

\* the vector record of row i (of rs) for the flag is in the store sp
HasRecord(sp, rs, i, flag) ==
    /\ SpaceName(rs[i].repo_id, PurposeOfFlag(flag)) \in DOMAIN sp
    /\ i \in DOMAIN sp[SpaceName(rs[i].repo_id, PurposeOfFlag(flag))].recs

\* C26: when a delete operation returns, True or False, every row that still exists with a
\* vector flag set, and that had its vector record before the call, still has the record
C26_DeleteKeepsVectorsOfRows ==
    [][op'.name \in {"delete", "delete_by_repo_id"} =>
        \A i \in DOMAIN rows' : \A flag \in VectorFlags :
            (rows'[i][flag] /\ HasRecord(spaces, rows, i, flag))
                => HasRecord(spaces', rows', i, flag)
      ]_vars

\* the rows whose is_vectorized the step has set: false before, true after
NewlyVectorized == {i \in (DOMAIN rows) \cap (DOMAIN rows') : ~rows[i].is_vectorized /\ rows'[i].is_vectorized}

\* C27: the count that vectorize returns is the number of rows whose is_vectorized flag the
\* call has set to true (checked on the calls made by scan_and_vectorize, which pass only
\* rows whose flag is false); a row whose update failed is not counted
C27_CountIsFlagsSet ==
    [][(table # "chunk" /\ op'.name = "scan_and_vectorize")
            => op'.ret = Cardinality(NewlyVectorized)
      ]_vars

\* ------------------------------------------------------- a caller that rewrites summaries
\* the summary texts of update(id, summary=...): the stored one and another one
SummaryTexts == {LLM_TEXT, "s2"}

\* FunctionDataUpdate(summary=text) / ClassDataUpdate(summary=text): only summary is not None
UpdateSummary == UpdateWith({[summary |-> text] : text \in SummaryTexts})

InitResummarize == Init /\ run \in {"function", "class"}

NextResummarize ==
    \/ Create
    \/ ScanAndGenerateSummaryOk
    \/ ScanAndVectorize
    \/ UpdateSummary

SpecResummarize == InitResummarize /\ [][NextResummarize]_vars

\* C28: on the RepoFunctions and RepoClasses tables the summary of every row with
\* is_vectorized = true, whose vector record is in the store, is the text of that record
C28_VectorHoldsRowSummary ==
    ~ChunkRun =>
        \A i \in DOMAIN rows :
            (rows[i].is_vectorized /\ HasRecord(spaces, rows, i, "is_vectorized"))
                => spaces[SpaceName(rows[i].repo_id, table)].recs[i].text = rows[i].summary

\* ------------------------------------------------------- CodeChunker.chunk_source_code
\* sources of up to MaxLines lines (source_code.split('\n') has at least one element) and
\* chunk sizes up to MaxChunk, with every overlap below the chunk size
MaxLines == 6
MaxChunk == 4

\* the chunks list is recorded up to this length: a call that returns has appended at most
\* one chunk per line.  An iteration beyond it still runs (ChunkLoop stays enabled) and
\* leaves the recorded list as it is, so a loop whose start does not move repeats its state
MaxChunks == MaxLines + 1

Min(a, b) == IF a < b THEN a ELSE b

\* lines[start:end] of a list of n lines, as the numbers of the lines it holds: a negative
\* start counts from the end of the list
Slice(n, start, end) ==
    LET lo == IF start < 0 THEN (IF n + start < 0 THEN 0 ELSE n + start) ELSE Min(start, n)
        hi == IF end < 0 THEN (IF n + end < 0 THEN 0 ELSE n + end) ELSE Min(end, n)
    IN  [k \in 1..(hi - lo) |-> lo + k]

InitChunker ==
    /\ run = "chunk_source_code"
    /\ rows = [i \in {} |-> NewRow("function", "r1", "a.py")]
    /\ nextId = 1
    /\ spaces = [n \in {} |-> [vector_size |-> 0, recs |-> NoRecs]]
    /\ provider = FirstDim
    /\ op = Op("init", Null, {}, {}, NoIns, 0)
    /\ trace = << >>
    /\ \E n \in 1..MaxLines, chunk_size \in 1..MaxChunk :
       \E overlap \in 0..(chunk_size - 1) :
            fs = [lines |-> n, chunk_size |-> chunk_size, overlap |-> overlap]
    /\ nodes = << >>
    /\ edges = {}
    /\ now = 0
    /\ gop = [name |-> "while", start |-> 0, chunks |-> << >>]

\* one iteration of `while start < len(lines)`
ChunkLoop ==
    /\ gop.name = "while"
    /\ gop.start < fs.lines
    /\ LET end == Min(gop.start + fs.chunk_size, fs.lines)
           chunk == [start_line |-> gop.start + 1, end_line |-> end,
                     code |-> Slice(fs.lines, gop.start, end)]
       IN  gop' = [name |-> "while", start |-> end - fs.overlap,
                   chunks |-> IF Len(gop.chunks) < MaxChunks THEN Append(gop.chunks, chunk)
                              ELSE gop.chunks]
    /\ UNCHANGED <<fs, nodes, edges, now>>
    /\ UNCHANGED cvars

\* the loop condition is false: return chunks
ChunkReturn ==
    /\ gop.name = "while"
    /\ ~(gop.start < fs.lines)
    /\ gop' = [gop EXCEPT !.name = "return"]
    /\ UNCHANGED <<fs, nodes, edges, now>>
    /\ UNCHANGED cvars

NextChunker == ChunkLoop \/ ChunkReturn

\* the call keeps running until it returns
SpecChunker == InitChunker /\ [][NextChunker]_vars /\ WF_vars(NextChunker)

\* the lines held by the chunks
Covered(chunks) == UNION {{chunks[k].code[j] : j \in DOMAIN chunks[k].code} : k \in DOMAIN chunks}

\* C29: chunk_source_code returns for every source and every 0 <= overlap < chunk_size, and
\* the chunks it returns have 1 <= start_line <= end_line and hold every line of the source
C29_ChunkingReturnsCover ==
    <>(/\ gop.name = "return"
       /\ \A k \in DOMAIN gop.chunks :
            1 <= gop.chunks[k].start_line /\ gop.chunks[k].start_line <= gop.chunks[k].end_line
       /\ Covered(gop.chunks) = 1..fs.lines)

\* ------------------------------------------------------- sibling folders
\* a project with the folders src (src/a.py) and src2 (src2/b.py) whose graph a client has
\* saved node by node, and the folder operations on one of them
SiblingPath == "src2"
SiblingFilePath == "src2/b.py"
SiblingPaths == {"src", SiblingPath}

FuncB == [name |-> "b", full_name |-> "src2.b.b", signature |-> "b()", calls |-> {}]
SiblingFile == [name |-> "b.py", file_path |-> SiblingFilePath, classes |-> {}, functions |-> {FuncB}]

FileIn(d) == IF d = SiblingPath THEN SiblingFile ELSE FileInfo({ClassA1}, {FuncG})
FolderIn(d) == [name |-> d, path |-> d, files |-> {FileIn(d)}, subfolders |-> {}]

InitSiblings ==
    /\ run = "siblings"
    /\ rows = [i \in {} |-> NewRow("function", "r1", "a.py")]
    /\ nextId = 1
    /\ spaces = [n \in {} |-> [vector_size |-> 0, recs |-> NoRecs]]
    /\ provider = FirstDim
    /\ op = Op("init", Null, {}, {}, NoIns, 0)
    /\ trace = << >>
    /\ fs = "v1"
    /\ nodes = << >>
    /\ edges = {}
    /\ now = 0
    /\ gop = [name |-> "init", arg |-> "", result |-> "ok", repeat |-> FALSE]

\* Neo4jClient.save_file_node called by a client
SaveFileNode ==
    \E d \in SiblingPaths :
        GraphStep("save_file_node", d, "ok", save_file_node(Graph, FileIn(d), now + 1))

\* Neo4jClient.save_folder_node called by a client
SaveFolderNode ==
    \E d \in SiblingPaths :
        GraphStep("save_folder_node", d, "ok", save_folder_node(Graph, FolderIn(d), NoFolder, now + 1))

\* Neo4jClient.delete_folder_nodes called by a client
DeleteFolderNodes ==
    \E d \in SiblingPaths :
        GraphStep("delete_folder_nodes", d, "ok", delete_folder_nodes(Graph, d))

\* CodeGraphGenerator.update_folders([src])
UpdateSrcFolder == update_folders("src")

NextSiblings ==
    \/ SaveFileNode
    \/ SaveFolderNode
    \/ DeleteFolderNodes
    \/ UpdateSrcFolder

SpecSiblings == InitSiblings /\ [][NextSiblings]_vars

\* the components of the paths of the model
Components ==
    ("." :> << >>) @@ ("src" :> <<"src">>) @@ (SiblingPath :> <<"src2">>)
    @@ (FilePath :> <<"src", "a.py">>) @@ (SiblingFilePath :> <<"src2", "b.py">>)

\* path a is d or lies below d
IsUnder(a, d) ==
    /\ a \in DOMAIN Components
    /\ Len(Components[d]) <= Len(Components[a])
    /\ SubSeq(Components[a], 1, Len(Components[d])) = Components[d]

\* node k of the graph lies in the subtree of folder d
InSubtree(k, d) ==
    IF Label(k) \in {"Folder", "File"} THEN IsUnder(k[3], d)
    ELSE IF Label(k) \in {"Class", "Function"} THEN IsUnder(nodes[k].file_path, d)
    ELSE FALSE

\* C30: update_folders([d]) and delete_folder_nodes(p, d) leave every Folder, File, Class
\* and Function node outside the subtree of d in the graph with its properties, the nodes
\* of the sibling folder src2 of d = src included
C30_FolderOpsKeepSiblings ==
    [][(run = "siblings" /\ gop'.name \in {"delete_folder_nodes", "update_folders"})
            => \A k \in DOMAIN nodes :
                  (Label(k) \in {"Folder", "File", "Class", "Function"} /\ ~InSubtree(k, gop'.arg))
                      => k \in DOMAIN nodes' /\ nodes'[k] = nodes[k]
      ]_vars
====
